---- MODULE Spec2Model ----
(***************************************************************************)
(* Rock-paper-scissors particle simulation (src/src/simulation.tsx).       *)
(*                                                                         *)
(* The file holds two variants of the Simulation component.  Variant 1     *)
(* (lines 1-334) has the speed control, the live population resize and the *)
(* elastic collision response; variant 2 (lines 335-554) has a fixed       *)
(* SPEED, no resize and a one-directional conversion rule.  The variable   *)
(* `variant` selects the component that is mounted.                        *)
(*                                                                         *)
(* JavaScript numbers are modelled as exact fractions [n, d] in lowest     *)
(* terms; d = 0 encodes the IEEE special values: 0/0 is NaN, 1/0 is        *)
(* +Infinity and -1/0 is -Infinity.                                        *)
(***************************************************************************)
EXTENDS Integers, Sequences, FiniteSets, TLC

----------------------------------------------------------------------------
(* Numbers *)

Abs(i) == IF i < 0 THEN -i ELSE i

Sgn(i) == IF i < 0 THEN -1 ELSE IF i > 0 THEN 1 ELSE 0

RECURSIVE GCD(_, _)
GCD(a, b) == IF b = 0 THEN a ELSE GCD(b, a % b)

\* The number n/d in lowest terms with a non-negative denominator.
Q(n, d) ==
    IF d = 0 THEN [n |-> Sgn(n), d |-> 0]
    ELSE IF d = 1 THEN [n |-> n, d |-> 1]
    ELSE LET g == GCD(Abs(n), Abs(d))
             s == IF d < 0 THEN -1 ELSE 1
         IN  [n |-> s * (n \div g), d |-> s * (d \div g)]

Int2Num(i) == [n |-> i, d |-> 1]

NaN == [n |-> 0, d |-> 0]

Infinity == [n |-> 1, d |-> 0]

Zero == Int2Num(0)

IsNaN(a) == a.d = 0 /\ a.n = 0

IsFinite(a) == a.d # 0

\* a + b (IEEE: Infinity + Infinity = Infinity, Infinity - Infinity = NaN).
NumAdd(a, b) ==
    IF a.d = 1 /\ b.d = 1 THEN [n |-> a.n + b.n, d |-> 1]
    ELSE IF a.d = 0 /\ b.d = 0
         THEN (IF a.n = b.n THEN a ELSE NaN)
    ELSE IF a.d = b.d THEN Q(a.n + b.n, a.d)
    ELSE LET g == GCD(a.d, b.d)
         IN  Q(a.n * (b.d \div g) + b.n * (a.d \div g), (a.d \div g) * b.d)

NumNeg(a) == [n |-> -a.n, d |-> a.d]

NumSub(a, b) == NumAdd(a, NumNeg(b))

\* a * b (IEEE: 0 * Infinity = NaN).
NumMul(a, b) ==
    IF a.d = 1 /\ b.d = 1 THEN [n |-> a.n * b.n, d |-> 1]
    ELSE LET g1 == GCD(Abs(a.n), b.d)
             g2 == GCD(Abs(b.n), a.d)
         IN  IF g1 = 0 \/ g2 = 0 THEN Q(a.n * b.n, a.d * b.d)
             ELSE Q((a.n \div g1) * (b.n \div g2), (a.d \div g2) * (b.d \div g1))

\* a / b (IEEE: x / 0 = +-Infinity for x # 0, 0 / 0 = NaN, x / Infinity = 0).
NumDiv(a, b) == NumMul(a, Q(b.d, b.n))

\* a < b; every comparison with NaN is false.
NumLess(a, b) ==
    IF IsNaN(a) \/ IsNaN(b) THEN FALSE
    ELSE IF a.d = 0 /\ b.d = 0 THEN a.n < b.n
    ELSE a.n * b.d < b.n * a.d

NumLessEq(a, b) ==
    IF IsNaN(a) \/ IsNaN(b) THEN FALSE
    ELSE IF a.d = 0 /\ b.d = 0 THEN a.n <= b.n
    ELSE a.n * b.d <= b.n * a.d

NumAbs(a) == [n |-> Abs(a.n), d |-> a.d]

\* Math.min / Math.max: NaN if either argument is NaN.
MathMin(a, b) ==
    IF IsNaN(a) \/ IsNaN(b) THEN NaN ELSE IF NumLess(b, a) THEN b ELSE a

MathMax(a, b) ==
    IF IsNaN(a) \/ IsNaN(b) THEN NaN ELSE IF NumLess(a, b) THEN b ELSE a

\* Math.floor of a finite number, as an integer.
MathFloor(a) == a.n \div a.d

\* Newton's iteration for the integer square root, downwards from x.
RECURSIVE RootFrom(_, _)
RootFrom(x, m) ==
    LET y == (x + m \div x) \div 2
    IN  IF y >= x THEN x ELSE RootFrom(y, m)

\* The greatest k with k * k <= m.
IntRoot(m) == IF m < 2 THEN m ELSE RootFrom(m \div 2 + 1, m)

IsSquare(m) == LET k == IntRoot(m) IN k * k = m

\* Whether Math.sqrt(a) is one of the modelled numbers: a is special, negative,
\* or the quotient of two perfect squares.
HasSqrt(a) ==
    IF a.d = 0 THEN TRUE
    ELSE IF a.n < 0 THEN TRUE
    ELSE IsSquare(a.n) /\ IsSquare(a.d)

\* Math.sqrt(a), for a with HasSqrt(a).
MathSqrt(a) ==
    IF a.n < 0 THEN NaN
    ELSE IF a.d = 0 THEN a
    ELSE [n |-> IntRoot(a.n), d |-> IntRoot(a.d)]

\* The JavaScript test `v || fallback` on a number: NaN and 0 are falsy.
OrElse(v, fallback) == IF IsNaN(v) \/ v = Zero THEN fallback ELSE v

----------------------------------------------------------------------------
(* Bounds of the model *)

\* User events (button presses and input changes) explored per behaviour.
MaxEvents == 4

\* Speed and population changes made while running, per behaviour.
MaxLive == 1

\* Animation frames explored per behaviour.
MaxTicks == 2

\* Live particles explored: a start or a resize that would exceed it is not
\* explored.
MaxObjects == 30

----------------------------------------------------------------------------
(* Types and constants of the component *)

ObjectType == {"rock", "paper", "scissors"}

\* Object.keys(counts): the insertion order of the Counts literal.
CountKeys == <<"rock", "paper", "scissors">>

initialCounts == [rock |-> 10, paper |-> 10, scissors |-> 10]

initialSpeed == Q(5, 2)

CANVAS_WIDTH(v) == IF v = 1 THEN 1200 ELSE 600

CANVAS_HEIGHT(v) == IF v = 1 THEN 800 ELSE 400

OBJECT_RADIUS == 5

SPEED == 2

beats == [rock |-> "scissors", paper |-> "rock", scissors |-> "paper"]

----------------------------------------------------------------------------
(* Math.random()                                                           *)
(* The generator is deterministic in its hidden state.  A seed fixes the   *)
(* stream: the k-th particle created takes the four values DrawAt(v, s, k) *)
(* (for x, y, dx, dy, in the order createObject evaluates them) and the    *)
(* k-th removal takes PickAt(s, k).  All values lie in [0, 1).             *)

Seeds == {1, 2}

\* Random values that place a particle at (x, y) in the arena of variant v.
AtX(v, x) == Q(x - OBJECT_RADIUS, CANVAS_WIDTH(v) - 2 * OBJECT_RADIUS)

AtY(v, y) == Q(y - OBJECT_RADIUS, CANVAS_HEIGHT(v) - 2 * OBJECT_RADIUS)

\* Random values for a velocity component, which is (r - 1/2) * speed.
Fwd == Q(9, 10)

Back == Q(1, 10)

Still == Q(1, 2)

\* The first particles of each stream.
\* Seed 1: two particles two units apart closing head-on, a particle moving
\* obliquely, a particle on the left wall moving outwards, a particle at rest.
\* Seed 2: a particle that lands exactly on a resting particle, a resting
\* particle in the open, a particle on the top wall moving outwards.
Tape(v, s) ==
    IF s = 1
    THEN << <<AtX(v, 10), AtY(v, 50), Fwd, Still>>,
            <<AtX(v, 12), AtY(v, 50), Back, Still>>,
            <<AtX(v, 300), AtY(v, 300), Q(4, 5), Fwd>>,
            <<Zero, AtY(v, 200), Back, Still>>,
            <<AtX(v, 400), AtY(v, 300), Still, Still>> >>
    ELSE << <<AtX(v, 10), AtY(v, 50), Fwd, Still>>,
            <<AtX(v, 11), AtY(v, 50), Still, Still>>,
            <<AtX(v, 400), AtY(v, 300), Still, Still>>,
            <<AtX(v, 500), Zero, Still, Back>> >>

\* The rest of each stream: ten sites, at each site three particles four units
\* apart (created ten draws apart), placed and moving along x at the even
\* sites and along y at the odd ones.
Bulk(v, k) ==
    LET site  == (k - 1) % 10
        layer == ((k - 1) \div 10) % 3
        along == IF layer = 0 THEN Fwd ELSE IF layer = 1 THEN Back ELSE Still
    IN  IF site % 2 = 0
        THEN << AtX(v, 55 + 50 * site + 4 * layer), AtY(v, 55 + 30 * site), along, Still >>
        ELSE << AtX(v, 55 + 50 * site), AtY(v, 55 + 30 * site + 4 * layer), Still, along >>

DrawAt(v, s, k) == IF k <= Len(Tape(v, s)) THEN Tape(v, s)[k] ELSE Bulk(v, k)

PickAt(s, k) == IF (k + s) % 3 = 0 THEN Zero ELSE IF (k + s) % 3 = 1 THEN Q(1, 2) ELSE Q(9, 10)

----------------------------------------------------------------------------
(* State *)

VARIABLES
    variant,        \* which Simulation component is mounted: 1 or 2
    seed,           \* the hidden state of Math.random at page load
    draws,          \* particles created so far (position in the stream)
    picks,          \* removal indices drawn so far
    isRunning,      \* useState: isRunning
    counts,         \* useState: counts (the requested population)
    speed,          \* useState: speed (variant 1)
    objects,        \* objectsRef.current
    animationRef,   \* animationRef.current: a frame id, 0 for undefined
    frames,         \* pending requestAnimationFrame callbacks
    nextFrame,      \* the id the next requestAnimationFrame returns
    canvas,         \* how many particles are drawn on the canvas
    calls,          \* the handleCollision calls of the latest frame, in order
    lastOp,         \* the handler that ran last, with its arguments
    events,         \* user events so far
    live,           \* speed and population changes made while running so far
    ticks           \* frames run so far

vars == <<variant, seed, draws, picks, isRunning, counts, speed, objects,
          animationRef, frames, nextFrame, canvas, calls, lastOp, events, live, ticks>>

----------------------------------------------------------------------------
(* Particle store *)

\* The speed a new particle is created with: the speed state in variant 1,
\* the constant SPEED in variant 2.
CreateSpeed(v, sp) == IF v = 1 THEN sp ELSE Int2Num(SPEED)

\* createObject(type), for the k-th particle of the stream.
createObject(v, s, sp, type, k) ==
    LET r == DrawAt(v, s, k)
        w == Int2Num(CANVAS_WIDTH(v) - 2 * OBJECT_RADIUS)
        h == Int2Num(CANVAS_HEIGHT(v) - 2 * OBJECT_RADIUS)
    IN  [type |-> type,
         x  |-> NumAdd(NumMul(r[1], w), Int2Num(OBJECT_RADIUS)),
         y  |-> NumAdd(NumMul(r[2], h), Int2Num(OBJECT_RADIUS)),
         dx |-> NumMul(NumSub(r[3], Q(1, 2)), CreateSpeed(v, sp)),
         dy |-> NumMul(NumSub(r[4], Q(1, 2)), CreateSpeed(v, sp))]

\* objects.push(createObject(type)), n times, from draw k + 1 on.
RECURSIVE PushNew(_, _, _, _, _, _, _)
PushNew(objs, v, s, sp, type, k, n) ==
    IF n <= 0 THEN objs
    ELSE PushNew(Append(objs, createObject(v, s, sp, type, k + 1)),
                 v, s, sp, type, k + 1, n - 1)

\* How many particles of a type a list holds.
RECURSIVE Tally(_, _)
Tally(objs, type) ==
    IF objs = <<>> THEN 0
    ELSE (IF Head(objs).type = type THEN 1 ELSE 0) + Tally(Tail(objs), type)

TotalCount(c) == c.rock + c.paper + c.scissors

\* initializeObjects(): a fresh list, counts[type] particles per type in the
\* order of Object.keys(counts).
initializeObjects(v, s, sp, c, k) ==
    LET rocks  == PushNew(<<>>, v, s, sp, CountKeys[1], k, c[CountKeys[1]])
        papers == PushNew(rocks, v, s, sp, CountKeys[2], k + Len(rocks), c[CountKeys[2]])
    IN  PushNew(papers, v, s, sp, CountKeys[3], k + Len(papers), c[CountKeys[3]])

\* The positions in the list of the particles of a type: currentObjects.filter.
RECURSIVE TypeIndices(_, _, _)
TypeIndices(objs, type, i) ==
    IF i > Len(objs) THEN <<>>
    ELSE IF objs[i].type = type
         THEN <<i>> \o TypeIndices(objs, type, i + 1)
         ELSE TypeIndices(objs, type, i + 1)

\* currentObjects.splice(i, 1)
Splice(objs, i) == SubSeq(objs, 1, i - 1) \o SubSeq(objs, i + 1, Len(objs))

\* A removal loop that indexes the whole list instead of the filtered one: the
\* fault that the filter and indexOf of updateObjectCount exclude.
RECURSIVE RemoveRandomOfAll(_, _, _, _, _)
RemoveRandomOfAll(objs, s, type, k, n) ==
    IF n <= 0 THEN objs
    ELSE LET randomIndex == MathFloor(NumMul(PickAt(s, k + 1), Int2Num(Len(objs))))
         IN  RemoveRandomOfAll(Splice(objs, randomIndex + 1), s, type, k + 1, n - 1)

\* The removal loop of updateObjectCount: n times, filter the particles of the
\* type, pick one at Math.floor(Math.random() * length), splice it out.
RECURSIVE RemoveRandom(_, _, _, _, _)
RemoveRandom(objs, s, type, k, n) ==
    IF n <= 0 THEN objs
    ELSE LET typeObjects == TypeIndices(objs, type, 1)
             randomIndex == MathFloor(NumMul(PickAt(s, k + 1), Int2Num(Len(typeObjects))))
             indexInMain == typeObjects[randomIndex + 1]
         IN  RemoveRandom(Splice(objs, indexInMain), s, type, k + 1, n - 1)

\* updateObjectCount(type, newCount): the new list.
updateObjectCount(objs, v, s, sp, k, pk, type, newCount) ==
    LET currentTypeCount == Tally(objs, type)
    IN  IF newCount > currentTypeCount
        THEN PushNew(objs, v, s, sp, type, k, newCount - currentTypeCount)
        ELSE IF newCount < currentTypeCount
        THEN RemoveRandom(objs, s, type, pk, currentTypeCount - newCount)
        ELSE objs

\* The rescaling loop of the speed handlers: every particle's velocity is
\* multiplied by newSpeed / Math.sqrt(dx * dx + dy * dy).
SquaredSpeed(obj) == NumAdd(NumMul(obj.dx, obj.dx), NumMul(obj.dy, obj.dy))

Rescale(obj, newSpeed) ==
    LET currentSpeed == MathSqrt(SquaredSpeed(obj))
        scale == NumDiv(newSpeed, currentSpeed)
    IN  [obj EXCEPT !.dx = NumMul(obj.dx, scale), !.dy = NumMul(obj.dy, scale)]

RescaleAll(objs, newSpeed) == [i \in 1..Len(objs) |-> Rescale(objs[i], newSpeed)]

\* Every particle's speed is a number of the model.
SpeedsRepresentable(objs) == \A i \in 1..Len(objs) : HasSqrt(SquaredSpeed(objs[i]))

----------------------------------------------------------------------------
(* Collision resolver *)

\* A conversion that brings in the third type: the loser takes the type that
\* beats the winner instead of the winner's own.
ConvertTypesToThird(t1, t2) ==
    LET third(w) == CHOOSE t \in ObjectType : beats[t] = w
    IN  IF beats[t1] = t2 THEN <<t1, third(t1)>>
        ELSE IF beats[t2] = t1 THEN <<third(t2), t2>>
        ELSE <<t1, t2>>

\* The type changes at the end of handleCollision, variant 1: the pair of new
\* types.
ConvertTypes1(t1, t2) ==
    IF beats[t1] = t2 THEN <<t1, t1>>
    ELSE IF beats[t2] = t1 THEN <<t2, t2>>
    ELSE <<t1, t2>>

\* handleCollision of variant 2: only obj2 can convert.
ConvertTypes2(t1, t2) ==
    IF beats[t1] = t2 THEN <<t1, t1>> ELSE <<t1, t2>>

\* handleCollision(obj1, obj2) of variant 1: the pair of particles afterwards.
\* With n = (nx, ny) the vector between the centres and dist = |n|, the code
\* projects on un = n / dist and ut = (-uny, unx).  Every result is a sum of
\* products of a velocity with two components of un or ut, so dist enters only
\* as dist * dist: with t = (-ny, nx), p1n = v1 . n = v1n * dist and
\* p1t = v1 . t = v1t * dist,
\*     obj1.dx = v1nAfter * unx + v1t * utx = (p2n * nx + p1t * tx) / dist^2.
\* For coincident centres dist = 0 and every quotient is 0 / 0 = NaN.
handleCollision1(obj1, obj2) ==
    LET nx == NumSub(obj2.x, obj1.x)
        ny == NumSub(obj2.y, obj1.y)
        dist2 == NumAdd(NumMul(nx, nx), NumMul(ny, ny))
        tx == NumNeg(ny)
        ty == nx
        p1n == NumAdd(NumMul(obj1.dx, nx), NumMul(obj1.dy, ny))
        p1t == NumAdd(NumMul(obj1.dx, tx), NumMul(obj1.dy, ty))
        p2n == NumAdd(NumMul(obj2.dx, nx), NumMul(obj2.dy, ny))
        p2t == NumAdd(NumMul(obj2.dx, tx), NumMul(obj2.dy, ty))
        p1nAfter == p2n
        p2nAfter == p1n
        types == ConvertTypes1(obj1.type, obj2.type)
    IN  << [obj1 EXCEPT
              !.dx = NumDiv(NumAdd(NumMul(p1nAfter, nx), NumMul(p1t, tx)), dist2),
              !.dy = NumDiv(NumAdd(NumMul(p1nAfter, ny), NumMul(p1t, ty)), dist2),
              !.type = types[1]],
           [obj2 EXCEPT
              !.dx = NumDiv(NumAdd(NumMul(p2nAfter, nx), NumMul(p2t, tx)), dist2),
              !.dy = NumDiv(NumAdd(NumMul(p2nAfter, ny), NumMul(p2t, ty)), dist2),
              !.type = types[2]] >>

\* handleCollision(obj1, obj2) of variant 2: no velocity change.
handleCollision2(obj1, obj2) ==
    LET types == ConvertTypes2(obj1.type, obj2.type)
    IN  << [obj1 EXCEPT !.type = types[1]], [obj2 EXCEPT !.type = types[2]] >>

handleCollision(v, obj1, obj2) ==
    IF v = 1 THEN handleCollision1(obj1, obj2) ELSE handleCollision2(obj1, obj2)

----------------------------------------------------------------------------
(* Stepper: the forEach over objects in updatePositions *)

\* obj.x += obj.dx; obj.y += obj.dy
Advance(obj) == [obj EXCEPT !.x = NumAdd(obj.x, obj.dx), !.y = NumAdd(obj.y, obj.dy)]

\* Bounce off walls: the velocity component is negated when the coordinate is
\* at or beyond a bound.
AtWall(c, hi) ==
    NumLessEq(c, Int2Num(OBJECT_RADIUS)) \/ NumLessEq(Int2Num(hi - OBJECT_RADIUS), c)

Bounce(v, obj) ==
    [obj EXCEPT
       !.dx = IF AtWall(obj.x, CANVAS_WIDTH(v)) THEN NumNeg(obj.dx) ELSE obj.dx,
       !.dy = IF AtWall(obj.y, CANVAS_HEIGHT(v)) THEN NumNeg(obj.dy) ELSE obj.dy]

\* Whether |b - a| >= k: the coordinates alone put the centres k or more apart.
Apart(a, b, k) ==
    IF a.d = b.d /\ a.d # 0 THEN Abs(b.n - a.n) >= k * a.d
    ELSE NumLessEq(Int2Num(k), NumAbs(NumSub(b, a)))

\* distance < OBJECT_RADIUS * 2, with distance = Math.sqrt(dx * dx + dy * dy):
\* compared as squares.  A component of 2 * OBJECT_RADIUS or more already makes
\* the distance too large; testing it first keeps the products small.
Overlap(obj, other) ==
    IF Apart(obj.x, other.x, OBJECT_RADIUS * 2) THEN FALSE
    ELSE IF Apart(obj.y, other.y, OBJECT_RADIUS * 2) THEN FALSE
    ELSE LET dx == NumSub(other.x, obj.x)
             dy == NumSub(other.y, obj.y)
             lim == Int2Num(OBJECT_RADIUS * 2)
         IN  NumLess(NumAdd(NumMul(dx, dx), NumMul(dy, dy)), NumMul(lim, lim))

\* An inner forEach without the test `other !== obj`: every particle is also
\* checked against itself, at distance 0.
RECURSIVE CheckCollisionsWithSelf(_, _, _, _)
CheckCollisionsWithSelf(v, st, i, j) ==
    IF j > Len(st.objs) THEN st
    ELSE IF Overlap(st.objs[i], st.objs[j])
    THEN LET after == handleCollision(v, st.objs[i], st.objs[j])
             call  == [obj |-> i, other |-> j,
                       pre1 |-> st.objs[i], pre2 |-> st.objs[j],
                       post1 |-> after[1], post2 |-> after[2]]
         IN  CheckCollisionsWithSelf(v,
                 [objs  |-> [st.objs EXCEPT ![i] = after[1], ![j] = after[2]],
                  calls |-> Append(st.calls, call)],
                 i, j + 1)
    ELSE CheckCollisionsWithSelf(v, st, i, j + 1)

\* An inner forEach whose conversions are held back: handleCollision's change
\* of velocity is written to the list, its change of type is not, as if the
\* types were read from a copy of the list made when the frame began.
RECURSIVE CheckCollisionsOnSnapshot(_, _, _, _)
CheckCollisionsOnSnapshot(v, st, i, j) ==
    IF j > Len(st.objs) THEN st
    ELSE IF j # i /\ Overlap(st.objs[i], st.objs[j])
    THEN LET after == handleCollision(v, st.objs[i], st.objs[j])
             call  == [obj |-> i, other |-> j,
                       pre1 |-> st.objs[i], pre2 |-> st.objs[j],
                       post1 |-> after[1], post2 |-> after[2]]
         IN  CheckCollisionsOnSnapshot(v,
                 [objs  |-> [st.objs EXCEPT
                                ![i] = [after[1] EXCEPT !.type = st.objs[i].type],
                                ![j] = [after[2] EXCEPT !.type = st.objs[j].type]],
                  calls |-> Append(st.calls, call)],
                 i, j + 1)
    ELSE CheckCollisionsOnSnapshot(v, st, i, j + 1)

\* The inner forEach for particle i, from other = j on.  st holds the list and
\* the log of handleCollision calls.
RECURSIVE CheckCollisions(_, _, _, _)
CheckCollisions(v, st, i, j) ==
    IF j > Len(st.objs) THEN st
    ELSE IF j # i /\ Overlap(st.objs[i], st.objs[j])
    THEN LET after == handleCollision(v, st.objs[i], st.objs[j])
             call  == [obj |-> i, other |-> j,
                       pre1 |-> st.objs[i], pre2 |-> st.objs[j],
                       post1 |-> after[1], post2 |-> after[2]]
         IN  CheckCollisions(v,
                 [objs  |-> [st.objs EXCEPT ![i] = after[1], ![j] = after[2]],
                  calls |-> Append(st.calls, call)],
                 i, j + 1)
    ELSE CheckCollisions(v, st, i, j + 1)

\* The outer forEach, from particle i on: move it, bounce it off the walls,
\* then check it against every other particle.
RECURSIVE StepFrom(_, _, _)
StepFrom(v, st, i) ==
    IF i > Len(st.objs) THEN st
    ELSE LET moved == Bounce(v, Advance(st.objs[i]))
         IN  StepFrom(v,
                 CheckCollisions(v, [st EXCEPT !.objs[i] = moved], i, 1),
                 i + 1)

\* A pass that eliminates instead of converting: the particles whose type a
\* collision of the frame changed are taken out of the list afterwards.
StepRemovingLosers(v, objs) ==
    LET st == StepFrom(v, [objs |-> objs, calls |-> <<>>], 1)
        kept == {i \in 1..Len(objs) : st.objs[i].type = objs[i].type}
        RECURSIVE Keep(_)
        Keep(i) == IF i > Len(objs) THEN <<>>
                   ELSE IF i \in kept THEN <<st.objs[i]>> \o Keep(i + 1)
                   ELSE Keep(i + 1)
    IN  [st EXCEPT !.objs = Keep(1)]

\* One frame's pass over the list: the new list and the calls made.
Step(v, objs) == StepFrom(v, [objs |-> objs, calls |-> <<>>], 1)

\* clearRect, then the draw loop: one glyph per particle.
Draw(objs) == Len(objs)

----------------------------------------------------------------------------
(* Frame scheduling *)

\* requestAnimationFrame(updatePositions): the callback is the closure of the
\* render that created it, which fixes the isRunning it reads.
requestAnimationFrame(fs, id, closureRunning) ==
    fs \cup {[id |-> id, running |-> closureRunning]}

\* A cancellation that leaves the callback pending: what the frame queue would
\* hold if neither handleStop nor the effect's cleanup cancelled.
cancelNothing(fs, id) == fs

\* cancelAnimationFrame(id), behind the test `if (animationRef.current)`.
cancelAnimationFrame(fs, id) ==
    IF id # 0 THEN {f \in fs : f.id # id} ELSE fs

----------------------------------------------------------------------------
(* Inputs explored *)

\* Values the speed slider (min 0.5, max 10, step 0.5) can report.
SpeedRangeInputs == {Int2Num(5)}

\* Results of parseFloat on what is typed in the speed box.
SpeedTypedInputs == {NaN, Int2Num(20)}

\* Values a population slider (min 0, max 50) can report.
CountRangeInputs == {1}

\* Results of parseInt on what is typed in a population box.
CountTypedInputs == {NaN, Int2Num(51)}

Op(name, type, value) == [op |-> name, type |-> type, value |-> value]

----------------------------------------------------------------------------
(* Initial state: the component after mounting *)

Init ==
    /\ variant \in {1, 2}
    /\ seed \in Seeds
    /\ draws = 0
    /\ picks = 0
    /\ isRunning = FALSE
    /\ counts = initialCounts
    /\ speed = initialSpeed
    /\ objects = <<>>
    /\ animationRef = 0
    /\ frames = {}
    /\ nextFrame = 1
    /\ canvas = 0
    /\ calls = <<>>
    /\ lastOp = Op("mount", "", Zero)
    /\ events = 0
    /\ live = 0
    /\ ticks = 0

----------------------------------------------------------------------------
(* Handlers *)

\* A start that pushes onto the list it finds instead of a fresh one: what
\* handleStart would do without `const objects = []` in initializeObjects.
handleStartKeeping ==
    /\ events < MaxEvents
    /\ ~isRunning
    /\ Len(objects) + TotalCount(counts) <= 2 * MaxObjects
    /\ objects' = objects \o initializeObjects(variant, seed, speed, counts, draws)
    /\ draws' = draws + TotalCount(counts)
    /\ isRunning' = TRUE
    /\ frames' = requestAnimationFrame(cancelAnimationFrame(frames, animationRef),
                                       nextFrame, TRUE)
    /\ animationRef' = nextFrame
    /\ nextFrame' = nextFrame + 1
    /\ lastOp' = Op("start", "", Zero)
    /\ events' = events + 1
    /\ UNCHANGED <<variant, seed, picks, counts, speed, canvas, calls, live, ticks>>

\* The Start button (disabled while running): handleStart, then the effect of
\* the render with isRunning = true: the previous effect's cleanup, then the
\* first frame request.
handleStart ==
    /\ events < MaxEvents
    /\ ~isRunning
    /\ TotalCount(counts) <= MaxObjects
    /\ objects' = initializeObjects(variant, seed, speed, counts, draws)
    /\ draws' = draws + TotalCount(counts)
    /\ isRunning' = TRUE
    /\ frames' = requestAnimationFrame(cancelAnimationFrame(frames, animationRef),
                                       nextFrame, TRUE)
    /\ animationRef' = nextFrame
    /\ nextFrame' = nextFrame + 1
    /\ lastOp' = Op("start", "", Zero)
    /\ events' = events + 1
    /\ UNCHANGED <<variant, seed, picks, counts, speed, canvas, calls, live, ticks>>

\* The Stop button (disabled unless running): handleStop, then the cleanup of
\* the effect as isRunning changes.
handleStop ==
    /\ events < MaxEvents
    /\ isRunning
    /\ isRunning' = FALSE
    /\ frames' = cancelAnimationFrame(frames, animationRef)
    /\ lastOp' = Op("stop", "", Zero)
    /\ events' = events + 1
    /\ UNCHANGED <<variant, seed, draws, picks, counts, speed, objects,
                   animationRef, nextFrame, canvas, calls, live, ticks>>

\* The counts after handleReset: variant 2 calls setCounts(initialCounts),
\* variant 1 does not.
ResetCounts(v, c) == IF v = 1 THEN c ELSE initialCounts

\* The Reset button: handleStop(), then clearRect on the canvas.
handleReset ==
    /\ events < MaxEvents
    /\ isRunning' = FALSE
    /\ frames' = cancelAnimationFrame(frames, animationRef)
    /\ counts' = ResetCounts(variant, counts)
    /\ canvas' = 0
    /\ lastOp' = Op("reset", "", Zero)
    /\ events' = events + 1
    /\ UNCHANGED <<variant, seed, draws, picks, speed, objects,
                   animationRef, nextFrame, calls, live, ticks>>

\* The body shared by the two speed inputs (variant 1): setSpeed(newSpeed),
\* and while running the rescaling of every particle.
SetSpeed(name, newSpeed) ==
    /\ events < MaxEvents
    /\ live < (IF isRunning THEN MaxLive ELSE MaxLive + 1)
    /\ variant = 1
    /\ speed' = newSpeed
    /\ IF isRunning
       THEN /\ SpeedsRepresentable(objects)
            /\ objects' = RescaleAll(objects, newSpeed)
       ELSE objects' = objects
    /\ lastOp' = Op(name, "", newSpeed)
    /\ events' = events + 1
    /\ live' = IF isRunning THEN live + 1 ELSE live
    /\ UNCHANGED <<variant, seed, draws, picks, isRunning, counts,
                   animationRef, frames, nextFrame, canvas, calls, ticks>>

\* onChange of the speed slider: parseFloat of a value of the slider.
speedRangeChange ==
    \E value \in SpeedRangeInputs :
        /\ value # speed
        /\ SetSpeed("speedRange", value)

\* A speed box without the clamp: parseFloat(e.target.value) || 0.5 alone.
ClampSpeedMissing(parsed) == OrElse(parsed, Q(1, 2))

\* The clamp of the speed box.
ClampSpeed(parsed) ==
    MathMin(Int2Num(10), MathMax(Q(1, 2), OrElse(parsed, Q(1, 2))))

\* onChange of the speed box.
speedNumberChange ==
    \E parsed \in SpeedTypedInputs :
        SetSpeed("speedNumber", ClampSpeed(parsed))

\* How many Math.random streams positions a change of length used up.
Created(before, after) == IF after > before THEN after - before ELSE 0

\* A resize that does not look at isRunning: what the population handlers
\* would do without the test `if (isRunning)` around updateObjectCount.
ResizeAlways == variant = 1

\* The body shared by the population inputs: setCounts, and in variant 1
\* while running updateObjectCount(type, value).
ResizeApplies == variant = 1 /\ isRunning

SetCount(name, type, value) ==
    /\ events < MaxEvents
    /\ live < (IF isRunning THEN MaxLive ELSE MaxLive + 1)
    /\ counts' = [counts EXCEPT ![type] = value]
    /\ IF ResizeApplies
       THEN /\ Len(objects) - Tally(objects, type) + value <= MaxObjects
            /\ objects' = updateObjectCount(objects, variant, seed, speed,
                                            draws, picks, type, value)
            /\ draws' = draws + Created(Len(objects), Len(objects'))
            /\ picks' = picks + Created(Len(objects'), Len(objects))
       ELSE UNCHANGED <<objects, draws, picks>>
    /\ lastOp' = Op(name, type, Int2Num(value))
    /\ events' = events + 1
    /\ live' = IF isRunning THEN live + 1 ELSE live
    /\ UNCHANGED <<variant, seed, isRunning, speed, animationRef, frames,
                   nextFrame, canvas, calls, ticks>>

\* onChange of a population slider: parseInt of a value of the slider.
countRangeChange ==
    \E type \in ObjectType, value \in CountRangeInputs :
        /\ value # counts[type]
        /\ SetCount("countRange", type, value)

\* The clamp of a population box.
ClampCount(parsed) ==
    MathMin(Int2Num(50), MathMax(Zero, OrElse(parsed, Zero))).n

\* onChange of a population box.
countNumberChange ==
    \E type \in ObjectType, parsed \in CountTypedInputs :
        SetCount("countNumber", type, ClampCount(parsed))

\* A step that requests no further frame: what the end of updatePositions
\* would do without its `if (isRunning) ... requestAnimationFrame(...)`.
RescheduleNever(fs, id, closureRunning) == fs

\* A pending frame callback fires: updatePositions. The list is stepped, the
\* canvas redrawn, and the closure requests the next frame if the isRunning
\* it captured is true.
Reschedule(fs, id, closureRunning) ==
    IF closureRunning THEN requestAnimationFrame(fs, id, closureRunning) ELSE fs

updatePositions ==
    \E f \in frames :
        /\ ticks < MaxTicks
        /\ ticks' = ticks + 1
        /\ lastOp' = Op("tick", "", Zero)
        /\ LET st == Step(variant, objects)
           IN  /\ objects' = st.objs
               /\ calls' = st.calls
               /\ canvas' = Draw(st.objs)
        /\ frames' = Reschedule(frames \ {f}, nextFrame, f.running)
        /\ animationRef' = IF f.running THEN nextFrame ELSE animationRef
        /\ nextFrame' = IF f.running THEN nextFrame + 1 ELSE nextFrame
        /\ UNCHANGED <<variant, seed, draws, picks, isRunning, counts, speed, events, live>>

Next ==
    \/ handleStart
    \/ handleStop
    \/ handleReset
    \/ speedRangeChange
    \/ speedNumberChange
    \/ countRangeChange
    \/ countNumberChange
    \/ updatePositions

Spec == Init /\ [][Next]_vars

\* A pending frame callback is run. Under Next the steps that count a tick are
\* exactly the updatePositions steps, and updatePositions can be taken exactly
\* when a callback is pending (and the MaxTicks bound is not reached), so
\* this is updatePositions seen from the frame scheduler.
FrameFires ==
    \E f \in frames :
        /\ ticks < MaxTicks
        /\ ticks' = ticks + 1

\* The browser runs every callback handed to requestAnimationFrame at its next
\* repaint unless it is cancelled first: a frame callback that stays pending
\* is eventually run.
FairSpec == Spec /\ WF_ticks(FrameFires)

----------------------------------------------------------------------------
(* The Controls component (src/src/components/Controls.tsx): what its inputs *)
(* pass to onSpeedChange and onCountChange.                                  *)

\* The speed box of Controls.
ControlsSpeedNumber(parsed) ==
    MathMin(Int2Num(10), MathMax(Q(1, 2), OrElse(parsed, Q(1, 2))))

\* A population box of Controls.
ControlsCountNumber(parsed) ==
    MathMin(Int2Num(50), MathMax(Zero, OrElse(parsed, Zero))).n

----------------------------------------------------------------------------
(* Properties *)

SpeedOps == {"speedRange", "speedNumber"}

CountOps == {"countRange", "countNumber"}

\* radius <= x <= width - radius and radius <= y <= height - radius
InArena(v, obj) ==
    /\ NumLessEq(Int2Num(OBJECT_RADIUS), obj.x)
    /\ NumLessEq(obj.x, Int2Num(CANVAS_WIDTH(v) - OBJECT_RADIUS))
    /\ NumLessEq(Int2Num(OBJECT_RADIUS), obj.y)
    /\ NumLessEq(obj.y, Int2Num(CANVAS_HEIGHT(v) - OBJECT_RADIUS))

\* C1: after every tick every particle lies within
\* [radius, width - radius] x [radius, height - radius].
C1_InArenaAfterTick ==
    lastOp.op = "tick" => \A i \in 1..Len(objects) : InArena(variant, objects[i])

\* The winner of two different types under rock > scissors > paper > rock.
Winner(t1, t2) == IF beats[t1] = t2 THEN t1 ELSE t2

\* C2: in every call of the collision resolver, two particles of different
\* types both leave with the type of the winner of the two types they came
\* with (so exactly the loser converts), and two particles of the same type
\* keep it.
C2_LoserConverts ==
    \A k \in 1..Len(calls) :
        LET c == calls[k]
        IN  IF c.pre1.type = c.pre2.type
            THEN c.post1.type = c.pre1.type /\ c.post2.type = c.pre2.type
            ELSE /\ c.post1.type = Winner(c.pre1.type, c.pre2.type)
                 /\ c.post2.type = Winner(c.pre1.type, c.pre2.type)

\* The particles of a list that are not of a type, in order.
RECURSIVE OtherTypes(_, _)
OtherTypes(objs, type) ==
    IF objs = <<>> THEN <<>>
    ELSE IF Head(objs).type # type
         THEN <<Head(objs)>> \o OtherTypes(Tail(objs), type)
         ELSE OtherTypes(Tail(objs), type)

\* Whether any tally of the list differs from the requested population.
Drifted(objs, c) == \E t \in ObjectType : Tally(objs, t) # c[t]

\* C3: a population change applied to the live list (variant 1, running)
\* leaves exactly the requested number of particles of the type, and the
\* particles of the other types are the same records in the same order.
C3_ResizeExact ==
    [][(lastOp'.op \in CountOps /\ ResizeApplies) =>
         /\ Tally(objects', lastOp'.type) = lastOp'.value.n
         /\ OtherTypes(objects', lastOp'.type) = OtherTypes(objects, lastOp'.type)]_vars

\* C3 witness: a list whose tallies had drifted from the requested ones was
\* resized downwards, below the tally it had.
C3_ResizedAfterDrift ==
    /\ lastOp.op \in CountOps
    /\ variant = 1 /\ isRunning /\ ticks >= 1 /\ picks >= 1
    /\ Drifted(objects, counts)
    /\ Tally(objects, lastOp.type) = lastOp.value.n
    /\ Len(objects) > lastOp.value.n

\* The k-th particle of a list is the one createObject makes from draw d of
\* the stream.
FreshAt(objs, k, d) ==
    objs[k] = createObject(variant, seed, speed, objs[k].type, d)

\* C4: a start (only possible when not running) leaves a list of exactly
\* counts[type] particles per type, every one of them created by this start.
C4_StartReplaces ==
    [][lastOp'.op = "start" =>
         /\ ~isRunning
         /\ \A t \in ObjectType : Tally(objects', t) = counts[t]
         /\ Len(objects') = TotalCount(counts)
         /\ \A k \in 1..Len(objects') : FreshAt(objects', k, draws + k)]_vars

\* C4 witness: after a reset, a start with the default population over a list
\* left from an earlier run gave ten particles of each type, before any tick
\* of the new run.  (The canvas is clear although a frame of the earlier run
\* was drawn: only a reset clears it.)
C4_RestartedAfterReset ==
    /\ lastOp.op = "start"
    /\ draws > TotalCount(counts)
    /\ ticks >= 1 /\ canvas = 0
    /\ counts = initialCounts
    /\ \A t \in ObjectType : Tally(objects, t) = 10

\* C5: after reset the simulation is not running, holds no particle, and the
\* requested population and the speed are the defaults.
C5_ResetRestores ==
    lastOp.op = "reset" =>
        /\ ~isRunning
        /\ objects = <<>>
        /\ counts = initialCounts
        /\ speed = initialSpeed

\* C6: from a state that is not running, every step other than a start or a
\* reset is a configuration change: no frame runs, the particle list, the
\* frame queue and the running flag stay as they are.  A stop itself leaves
\* the list as it is and no frame pending.
C6_StoppedIsFrozen ==
    [][/\ (~isRunning /\ lastOp'.op \notin {"start", "reset"}) =>
             /\ lastOp'.op \in SpeedOps \cup CountOps
             /\ objects' = objects
             /\ frames' = frames
             /\ isRunning' = isRunning
             /\ ticks' = ticks
       /\ lastOp'.op = "stop" => (objects' = objects /\ frames' = {})]_vars

\* C6 witness: a simulation that ran and was stopped had its speed or
\* population changed while stopped, with its particles retained.
C6_ConfiguredWhileStopped ==
    /\ ~isRunning
    /\ lastOp.op \in SpeedOps \cup CountOps
    /\ ticks >= 1
    /\ objects # <<>>
    /\ frames = {}

Particle(type, x, y, dx, dy) ==
    [type |-> type, x |-> Int2Num(x), y |-> Int2Num(y),
     dx |-> Int2Num(dx), dy |-> Int2Num(dy)]

\* C7: one tick on a rock at (10, 50) moving (1, 0) and a scissors at
\* (12, 50) moving (-1, 0) leaves two rocks, the first moving (-1, 0) and
\* the second (1, 0).
C7_HeadOnExchange ==
    [][(/\ objects = << Particle("rock", 10, 50, 1, 0),
                        Particle("scissors", 12, 50, -1, 0) >>
        /\ lastOp'.op = "tick") =>
         /\ Len(objects') = 2
         /\ objects'[1].type = "rock" /\ objects'[2].type = "rock"
         /\ objects'[1].dx = Int2Num(-1) /\ objects'[1].dy = Zero
         /\ objects'[2].dx = Int2Num(1) /\ objects'[2].dy = Zero]_vars

\* C8: a call of the collision resolver on two particles with the same
\* centre changes neither particle: velocities and types are as before, and
\* no velocity is the result of a division by zero.
C8_CoincidentSkipped ==
    \A k \in 1..Len(calls) :
        LET c == calls[k]
        IN  (c.pre1.x = c.pre2.x /\ c.pre1.y = c.pre2.y) =>
                (c.post1 = c.pre1 /\ c.post2 = c.pre2)

AtRest(obj) == obj.dx = Zero /\ obj.dy = Zero

\* C9: a speed change while running leaves every particle at rest at rest.
C9_RestStaysAtRest ==
    [][(lastOp'.op \in SpeedOps /\ isRunning) =>
         \A i \in 1..Len(objects) : AtRest(objects[i]) => AtRest(objects'[i])]_vars

\* The velocity of `after` is a non-negative multiple of that of `before`.
SameDirection(before, after) ==
    /\ NumSub(NumMul(before.dx, after.dy), NumMul(before.dy, after.dx)) = Zero
    /\ NumLessEq(Zero, NumAdd(NumMul(before.dx, after.dx), NumMul(before.dy, after.dy)))

\* C10: a speed change while running leaves every particle moving in the
\* direction it had, at the new speed if it was moving, and with the very
\* velocity it had if that was the new speed already.
C10_RescaledInDirection ==
    [][(lastOp'.op \in SpeedOps /\ isRunning) =>
         \A i \in 1..Len(objects) :
             /\ SameDirection(objects[i], objects'[i])
             /\ ~AtRest(objects[i]) =>
                    SquaredSpeed(objects'[i]) = NumMul(speed', speed')
             /\ SquaredSpeed(objects[i]) = NumMul(speed', speed') =>
                    (objects'[i].dx = objects[i].dx /\ objects'[i].dy = objects[i].dy)]_vars

\* C11: a population change always stores the requested value as the target
\* of its type.  While running (variant 1) the live list then holds exactly
\* that many particles of the type; while not running the list is left as it
\* is, and the next start creates a list with exactly the stored targets.
C11_TargetThenResize ==
    [][/\ lastOp'.op \in CountOps =>
             /\ counts' = [counts EXCEPT ![lastOp'.type] = lastOp'.value.n]
             /\ (variant = 1 /\ isRunning) =>
                    Tally(objects', lastOp'.type) = lastOp'.value.n
             /\ ~isRunning => objects' = objects
       /\ lastOp'.op = "start" =>
             \A t \in ObjectType : Tally(objects', t) = counts[t]]_vars

\* C11 witness: a target changed while stopped, with the particles of an
\* earlier run retained, was realized by the start that followed.
C11_RealizedOnNextStart ==
    /\ lastOp.op = "start"
    /\ draws > TotalCount(counts)
    /\ counts # initialCounts
    /\ \A t \in ObjectType : Tally(objects, t) = counts[t]
    /\ Len(objects) # 30

SpeedInBounds(a) == NumLessEq(Q(1, 2), a) /\ NumLessEq(a, Int2Num(10))

CountInBounds(n) == n \in 0..50

\* The bound nearest to a number, or the number itself if it is within.
NearestSpeed(a) ==
    IF NumLess(a, Q(1, 2)) THEN Q(1, 2)
    ELSE IF NumLess(Int2Num(10), a) THEN Int2Num(10) ELSE a

NearestCount(n) == IF n < 0 THEN 0 ELSE IF n > 50 THEN 50 ELSE n

\* Numbers parseFloat can return, below, at, within, at and above the bounds.
SpeedProbes ==
    {NumNeg(Infinity), Int2Num(-1), Zero, Q(1, 4), Q(1, 2), Int2Num(3),
     Int2Num(10), Int2Num(20), Infinity}

\* Integers parseInt can return.
CountProbes == {-3, 0, 7, 50, 51, 1000}

\* C12: the speed and every population target stored are within [0.5, 10]
\* and [0, 50] in every state, so every value used to create, rescale or
\* resize particles is; and each box turns a number outside the bounds into
\* the nearest bound and leaves a number within them as it is.
C12_ValuesWithinBounds ==
    /\ SpeedInBounds(speed)
    /\ \A t \in ObjectType : CountInBounds(counts[t])
    /\ lastOp.op \in SpeedOps => SpeedInBounds(lastOp.value)
    /\ lastOp.op \in CountOps => CountInBounds(lastOp.value.n)
    /\ \A a \in SpeedProbes :
           /\ ClampSpeed(a) = NearestSpeed(a)
           /\ ControlsSpeedNumber(a) = NearestSpeed(a)
    /\ \A n \in CountProbes :
           /\ ClampCount(Int2Num(n)) = NearestCount(n)
           /\ ControlsCountNumber(Int2Num(n)) = NearestCount(n)
    /\ SpeedInBounds(ClampSpeed(NaN)) /\ SpeedInBounds(ControlsSpeedNumber(NaN))
    /\ CountInBounds(ClampCount(NaN)) /\ CountInBounds(ControlsCountNumber(NaN))

\* C12 witness: a speed typed above the range was stored as the upper bound
\* and used to rescale the particles of a running simulation.
C12_ClampedAndApplied ==
    /\ lastOp.op = "speedNumber"
    /\ lastOp.value = Int2Num(10)
    /\ speed = Int2Num(10)
    /\ isRunning
    /\ objects # <<>>

\* a . b for the vectors (ax, ay) and (bx, by)
Dot(ax, ay, bx, by) == NumAdd(NumMul(ax, bx), NumMul(ay, by))

\* What C13 says of one call of the resolver, with n the vector between the
\* centres and t = (-ny, nx): components along the unit vectors are
\* exchanged or kept exactly when the products with n and t are.
ElasticExchange(c) ==
    LET nx == NumSub(c.pre2.x, c.pre1.x)
        ny == NumSub(c.pre2.y, c.pre1.y)
        tx == NumNeg(ny)
        ty == nx
    IN  (nx # Zero \/ ny # Zero) =>
          /\ NumAdd(SquaredSpeed(c.post1), SquaredSpeed(c.post2))
                = NumAdd(SquaredSpeed(c.pre1), SquaredSpeed(c.pre2))
          /\ Dot(c.post1.dx, c.post1.dy, nx, ny) = Dot(c.pre2.dx, c.pre2.dy, nx, ny)
          /\ Dot(c.post2.dx, c.post2.dy, nx, ny) = Dot(c.pre1.dx, c.pre1.dy, nx, ny)
          /\ Dot(c.post1.dx, c.post1.dy, tx, ty) = Dot(c.pre1.dx, c.pre1.dy, tx, ty)
          /\ Dot(c.post2.dx, c.post2.dy, tx, ty) = Dot(c.pre2.dx, c.pre2.dy, tx, ty)

\* C13: every call of the resolver of variant 1 on two particles with
\* different centres keeps the sum of the squared speeds, exchanges the
\* velocity components along the line of centres and keeps the components
\* across it.
C13_ElasticExchange ==
    variant = 1 => \A k \in 1..Len(calls) : ElasticExchange(calls[k])

\* Strictly between the wall bounds on both axes.
Inside(v, obj) ==
    /\ NumLess(Int2Num(OBJECT_RADIUS), obj.x)
    /\ NumLess(obj.x, Int2Num(CANVAS_WIDTH(v) - OBJECT_RADIUS))
    /\ NumLess(Int2Num(OBJECT_RADIUS), obj.y)
    /\ NumLess(obj.y, Int2Num(CANVAS_HEIGHT(v) - OBJECT_RADIUS))

\* The particle with its position one velocity further.
Moved(obj) == [obj EXCEPT !.x = NumAdd(obj.x, obj.dx), !.y = NumAdd(obj.y, obj.dy)]

\* No two particles of the list are closer than 2 * radius, whether each is
\* taken where it is before the tick or where it is after it.
AllClear(objs) ==
    \A i \in 1..Len(objs) : \A j \in (i + 1)..Len(objs) :
        /\ ~Overlap(objs[i], objs[j])
        /\ ~Overlap(Moved(objs[i]), objs[j])
        /\ ~Overlap(Moved(objs[i]), Moved(objs[j]))
        /\ ~Overlap(objs[i], Moved(objs[j]))

\* The particles that took part in a call of the resolver.
Involved(log) == {log[k].obj : k \in 1..Len(log)} \cup {log[k].other : k \in 1..Len(log)}

\* C14: a tick in which no two particles are closer than 2 * radius and every
\* particle moves to a place strictly between the walls changes no type and
\* no velocity, and moves every particle by its velocity.  More finely, in
\* any tick a particle that moves to a place strictly between the walls and
\* takes part in no call of the resolver is changed in that way only.
C14_IdleTickKeepsVelocity ==
    [][lastOp'.op = "tick" =>
         /\ ((\A i \in 1..Len(objects) : Inside(variant, Moved(objects[i])))
                /\ AllClear(objects)) =>
               /\ calls' = <<>>
               /\ objects' = [i \in 1..Len(objects) |-> Moved(objects[i])]
         /\ \A i \in 1..Len(objects) \ Involved(calls') :
               Inside(variant, Moved(objects[i])) => objects'[i] = Moved(objects[i])]_vars

\* C14 witness: a tick was run on a list of several moving particles with
\* nothing within reach: no call of the resolver, every particle strictly
\* between the walls before and after its move.
C14_IdleTickRun ==
    /\ lastOp.op = "tick"
    /\ Len(objects) >= 2
    /\ calls = <<>>
    /\ \A i \in 1..Len(objects) :
           /\ Inside(variant, objects[i])
           /\ Inside(variant, Moved(objects[i]))
           /\ ~AtRest(objects[i])
    /\ \A i \in 1..Len(objects) : \A j \in (i + 1)..Len(objects) :
           ~Overlap(objects[i], objects[j])

\* C15: at most one frame callback is pending in every state, none when the
\* simulation is not running, and the pending one is the one animationRef
\* names, so that a stop or a reset cancels it.
C15_OnePendingFrame ==
    /\ Cardinality(frames) <= 1
    /\ ~isRunning => frames = {}
    /\ \A f \in frames : f.id = animationRef

\* C15 witness: a simulation that was started a second time (every start and
\* every frame requests one frame) has run a frame since and has exactly one
\* frame pending.
C15_OneFrameAfterRestart ==
    /\ isRunning
    /\ lastOp.op = "tick"
    /\ nextFrame >= ticks + 3
    /\ Cardinality(frames) = 1

\* The unordered pair a call of the resolver was made on.
PairOf(c) == {c.obj, c.other}

\* C16: within one tick no two calls of the resolver are made on the same
\* unordered pair of particles.
C16_PairResolvedOnce ==
    \A k \in 1..Len(calls) : \A l \in (k + 1)..Len(calls) :
        PairOf(calls[k]) # PairOf(calls[l])

\* C17: every call of the resolver in a tick is made on two positions that
\* have both been advanced in that tick: positions are written by the advance
\* only, so both are the positions the particles have when the tick ends.
C17_TestsOnAdvancedPositions ==
    lastOp.op = "tick" =>
        \A k \in 1..Len(calls) :
            LET c == calls[k]
            IN  /\ c.pre1.x = objects[c.obj].x /\ c.pre1.y = objects[c.obj].y
                /\ c.pre2.x = objects[c.other].x /\ c.pre2.y = objects[c.other].y

\* radius <= c <= bound - radius on one axis
WithinAxis(c, hi) ==
    NumLessEq(Int2Num(OBJECT_RADIUS), c) /\ NumLessEq(c, Int2Num(hi - OBJECT_RADIUS))

\* C18: when a tick ends with a particle's coordinate at or beyond a wall
\* bound, the particle's velocity on that axis is such that the next advance
\* brings the coordinate within [radius, bound - radius].
C18_FlipBringsBack ==
    lastOp.op = "tick" =>
        \A i \in 1..Len(objects) :
            LET obj == objects[i]
            IN  /\ AtWall(obj.x, CANVAS_WIDTH(variant)) =>
                       WithinAxis(NumAdd(obj.x, obj.dx), CANVAS_WIDTH(variant))
                /\ AtWall(obj.y, CANVAS_HEIGHT(variant)) =>
                       WithinAxis(NumAdd(obj.y, obj.dy), CANVAS_HEIGHT(variant))

\* C19: while the simulation is running, every completed step leaves exactly
\* one further step scheduled, the one it has just requested; and from any
\* running state another step is eventually executed unless the simulation
\* is stopped or reset first (the model stops counting at MaxTicks steps).
C19_StepsKeepOccurring ==
    /\ [][(lastOp'.op = "tick" /\ isRunning) =>
              /\ frames' = {[id |-> nextFrame, running |-> TRUE]}
              /\ animationRef' = nextFrame
              /\ isRunning']_vars
    /\ \A n \in 0..(MaxTicks - 1) :
           (isRunning /\ ticks = n) ~> (ticks = n + 1 \/ ~isRunning)

\* Two steps in a row without stopping: the second ran from the frame that
\* the first requested, and has requested a third.
C19_SecondStepScheduled ==
    /\ isRunning
    /\ lastOp.op = "tick"
    /\ ticks = 2
    /\ nextFrame = 4
    /\ frames = {[id |-> 3, running |-> TRUE]}

\* The latest call before call k of the log that particle p took part in, or 0.
LastBefore(log, p, k) ==
    LET earlier == {l \in 1..(k - 1) : p \in PairOf(log[l])}
    IN  IF earlier = {} THEN 0 ELSE CHOOSE l \in earlier : \A m \in earlier : m <= l

\* The type of particle p as call c left it.
TypeAfterCall(c, p) == IF c.obj = p THEN c.post1.type ELSE c.post2.type

\* The type particle p should carry into call k: the one its latest earlier
\* collision of this frame left it with, or the one it began the frame with.
TypeEntering(objs, log, p, k) ==
    LET l == LastBefore(log, p, k)
    IN  IF l = 0 THEN objs[p].type ELSE TypeAfterCall(log[l], p)

\* Calls k < l of one frame form a chain: call k converts a particle b to the
\* type of its partner, and in call l that same b, carrying the new type,
\* converts a third particle to it.
Chain(log, k, l) ==
    \E b \in PairOf(log[k]) \cap PairOf(log[l]) :
        LET a == CHOOSE q \in PairOf(log[k]) : q # b
            c == CHOOSE q \in PairOf(log[l]) : q # b
            bBefore == IF log[k].obj = b THEN log[k].pre1.type ELSE log[k].pre2.type
            aType == IF log[k].obj = a THEN log[k].pre1.type ELSE log[k].pre2.type
            bAtL == IF log[l].obj = b THEN log[l].pre1.type ELSE log[l].pre2.type
            cBefore == IF log[l].obj = c THEN log[l].pre1.type ELSE log[l].pre2.type
        IN  /\ c # a
            /\ bBefore # aType
            /\ TypeAfterCall(log[k], b) = aType
            /\ bAtL = aType
            /\ cBefore # aType
            /\ TypeAfterCall(log[l], c) = aType

\* C20: conversions take effect immediately within a tick. Every collision
\* resolved in a tick sees each of its two particles with the type that the
\* particle's latest earlier collision of the same tick left it with (or, if
\* there was none, the type it had when the tick began), and the types the
\* tick ends with are those its last collisions produced.
C20_ConversionsImmediate ==
    [][lastOp'.op = "tick" =>
          /\ \A k \in 1..Len(calls') :
                 /\ calls'[k].pre1.type = TypeEntering(objects, calls', calls'[k].obj, k)
                 /\ calls'[k].pre2.type = TypeEntering(objects, calls', calls'[k].other, k)
          /\ \A p \in 1..Len(objects') :
                 objects'[p].type = TypeEntering(objects, calls', p, Len(calls') + 1)]_vars

\* A tick in which a chain happened: A converted B, and B, now of A's type,
\* went on to convert C.
C20_ChainInOneTick ==
    /\ lastOp.op = "tick"
    /\ \E l \in 1..Len(calls) : \E k \in 1..(l - 1) : Chain(calls, k, l)

\* Whether call c changed the type of one of its two particles.
Converts(c) == c.post1.type # c.pre1.type \/ c.post2.type # c.pre2.type

\* C21: a tick never creates or removes a particle: the list has as many
\* particles after a tick as before it, whatever collisions and conversions
\* occurred; and a step that changes the number of particles is a start or a
\* population change.
C21_TickKeepsTotal ==
    [][/\ lastOp'.op = "tick" => Len(objects') = Len(objects)
       /\ Len(objects') # Len(objects) => lastOp'.op \in CountOps \cup {"start"}]_vars

\* A tick in which a collision converted a particle, on the full default list.
C21_ConvertingTick ==
    /\ lastOp.op = "tick"
    /\ Len(objects) = TotalCount(initialCounts)
    /\ \E k \in 1..Len(calls) : Converts(calls[k])

\* The types present in a list.
TypesOf(objs) == {objs[i].type : i \in 1..Len(objs)}

\* C22: extinction is permanent under stepping. A tick gives no particle a
\* type that no particle had before the tick, so a type whose live tally is
\* zero stays at zero through every tick and a list of one single type keeps
\* every particle's type; a step that brings an absent type back is a start
\* or a population change.
C22_ExtinctStaysExtinct ==
    [][/\ lastOp'.op = "tick" =>
              /\ \A t \in ObjectType : Tally(objects, t) = 0 => Tally(objects', t) = 0
              /\ Cardinality(TypesOf(objects)) <= 1 =>
                     \A i \in 1..Len(objects) : objects'[i].type = objects[i].type
       /\ (\E t \in ObjectType : Tally(objects, t) = 0 /\ Tally(objects', t) # 0) =>
              lastOp'.op \in CountOps \cup {"start"}]_vars

\* A started list without one of the types (its target was zero at the start
\* and nothing was changed while running), stepped through a tick in which a
\* collision converted a particle: the type is still absent.
C22_ConversionWithTypeExtinct ==
    /\ lastOp.op = "tick"
    /\ live = 0
    /\ \E t \in ObjectType : counts[t] = 0 /\ Tally(objects, t) = 0
    /\ \E k \in 1..Len(calls) : Converts(calls[k])

====
